---- MODULE Spec2Model ----
(***************************************************************************)
(* Model of src/PyHealthTest/mimic4_mortality_prediction.py: the module    *)
(* level imports, the linear pipeline of main() and the try/except of the  *)
(* __main__ block.  The pyhealth operations (MIMIC4Dataset, set_task,      *)
(* stat_code_mapping, split_by_patient) are opaque external calls: each    *)
(* either returns some value or raises some exception.                     *)
(***************************************************************************)
EXTENDS Integers, Sequences, FiniteSets

VARIABLES pc, installed, task_ds, coding, train_ds, val_ds, test_ds,
          calls, out, exc, raisedBy, status, printed

vars == <<pc, installed, task_ds, coding, train_ds, val_ds, test_ds,
          calls, out, exc, raisedBy, status, printed>>

\* ---- bounds ----------------------------------------------------------
MaxSamples == 3
NumPatients == 2

\* ---- data ------------------------------------------------------------
Patients == 1..NumPatients

\* a sample as the script reads it: sample['patient_id'], sample['label']
Sample == [patient_id : Patients, label : {0, 1}]

SampleCollections == UNION {[1..n -> Sample] : n \in 0..MaxSamples}

Range(s) == {s[i] : i \in DOMAIN s}

\* the collection made of the samples of ds at the indices in I, in order
RECURSIVE Pick(_, _, _)
Pick(ds, I, i) ==
  IF i > Len(ds) THEN <<>>
  ELSE (IF i \in I THEN <<ds[i]>> ELSE <<>>) \o Pick(ds, I, i + 1)

\* what an opaque split call may hand back for one partition
SubCollections(ds) == {Pick(ds, I, 1) : I \in SUBSET (1..Len(ds))}

\* ---- exceptions ------------------------------------------------------
\* Python's built-in hierarchy, as far as the three except clauses see it
ExcBases(k) ==
  CASE k = "FileNotFoundError"   -> {"FileNotFoundError", "OSError", "Exception", "BaseException"}
    [] k = "ModuleNotFoundError" -> {"ModuleNotFoundError", "ImportError", "Exception", "BaseException"}
    [] k = "ImportError"         -> {"ImportError", "Exception", "BaseException"}
    [] k = "ValueError"          -> {"ValueError", "Exception", "BaseException"}
    [] k = "ZeroDivisionError"   -> {"ZeroDivisionError", "ArithmeticError", "Exception", "BaseException"}
    [] k = "KeyboardInterrupt"   -> {"KeyboardInterrupt", "BaseException"}
    [] OTHER                     -> {}

IsInstance(k, cls) == cls \in ExcBases(k)

\* what an external call may raise
Raisable == {"FileNotFoundError", "ModuleNotFoundError", "ImportError",
             "ValueError", "KeyboardInterrupt"}

\* the except clause that takes exception k: the first one that matches
Classify(k) ==
  IF IsInstance(k, "FileNotFoundError") THEN "not_found"
  ELSE IF IsInstance(k, "ImportError") THEN "import"
  ELSE IF IsInstance(k, "Exception") THEN "other"
  ELSE "none"

\* ---- report arithmetic ----------------------------------------------
\* n/d rounded to the nearest integer, ties to even: what '.Nf' prints of
\* a value whose scaled form is n/d
RoundHalfEven(n, d) ==
  LET q == n \div d
      r == n % d
  IN  IF 2 * r < d THEN q
      ELSE IF 2 * r > d THEN q + 1
      ELSE IF q % 2 = 0 THEN q ELSE q + 1

\* f"{x:.2f}" of x = num/den, as a number of hundredths
Format2f(num, den) == RoundHalfEven(num * 100, den)

\* f"{x:.1f}" of x = num/den, as a number of tenths
Format1f(num, den) == RoundHalfEven(num * 10, den)

RECURSIVE SumSeq(_)
SumSeq(s) == IF s = <<>> THEN 0 ELSE Head(s) + SumSeq(Tail(s))

\* labels = [sample['label'] for sample in task_ds]
Labels(ds) == [i \in DOMAIN ds |-> ds[i].label]

MortalityCount_survivors(ds) == Len(ds) - SumSeq(Labels(ds))

\* mortality_count = sum(labels)
MortalityCount(ds) == SumSeq(Labels(ds))

\* len({sample['patient_id'] for sample in ds})
PatientCount(ds) == Cardinality({ds[i].patient_id : i \in DOMAIN ds})

NothingPrinted ==
  [labels_shown |-> FALSE, total |-> 0, patients |-> 0,
   mortality_count |-> 0, mortality_rate |-> 0,
   survived_count |-> 0, survived_rate |-> 0,
   train |-> 0, val |-> 0, test |-> 0,
   train_pct |-> 0, val_pct |-> 0, test_pct |-> 0,
   train_patients |-> 0, val_patients |-> 0, test_patients |-> 0]

\* ---- output ----------------------------------------------------------
Say(tag) == Append(out, <<tag, "">>)
Printed(tag) == <<tag, "">> \in Range(out)

Init ==
  /\ pc = "import"
  /\ installed \in BOOLEAN
  /\ task_ds = <<>>
  /\ coding = [drugs |-> "NDC", diagnoses |-> "ICD9CM"]
  /\ train_ds = <<>>
  /\ val_ds = <<>>
  /\ test_ds = <<>>
  /\ calls = <<>>
  /\ out = <<>>
  /\ exc = "none"
  /\ raisedBy = "none"
  /\ status = "running"
  /\ printed = NothingPrinted

\* an exception leaves main() and reaches the except clauses of __main__
Raise(step, k) ==
  /\ exc' = k
  /\ raisedBy' = step
  /\ pc' = "except"

\* module-level imports, executed before the try statement is entered
Import ==
  /\ pc = "import"
  /\ IF installed
     THEN /\ pc' = "load"
          /\ UNCHANGED <<exc, raisedBy, status>>
     ELSE /\ exc' = "ModuleNotFoundError"
          /\ raisedBy' = "import"
          /\ status' = "uncaught"
          /\ pc' = "exit"
  /\ UNCHANGED <<installed, task_ds, coding, train_ds, val_ds, test_ds,
                 calls, out, printed>>

\* Step 1: MIMIC4Dataset(root=..., tables=[...], dev=True, refresh_cache=False)
Load ==
  /\ pc = "load"
  /\ calls' = Append(calls, "load")
  /\ \/ /\ out' = Say("step1_ok")
        /\ pc' = "label"
        /\ UNCHANGED <<exc, raisedBy>>
     \/ /\ \E k \in Raisable : Raise("load", k)
        /\ UNCHANGED out
  /\ UNCHANGED <<installed, task_ds, coding, train_ds, val_ds, test_ds,
                 status, printed>>

\* Step 2: task_ds = mimic4_dataset.set_task(in_hospital_mortality_mimic4_fn)
Label ==
  /\ pc = "label"
  /\ calls' = Append(calls, "label")
  /\ \/ /\ \E ds \in SampleCollections : task_ds' = ds
        /\ out' = Say("step2_ok")
        /\ pc' = "map_ndc"
        /\ UNCHANGED <<exc, raisedBy>>
     \/ /\ \E k \in Raisable : Raise("label", k)
        /\ UNCHANGED <<task_ds, out>>
  /\ UNCHANGED <<installed, coding, train_ds, val_ds, test_ds, status, printed>>

MapNDC_continues ==
  /\ pc = "map_ndc"
  /\ calls' = Append(calls, "map_ndc")
  /\ \/ /\ coding' = [coding EXCEPT !.drugs = "ATC3"]
        /\ out' = Say("ndc_ok")
        /\ pc' = "map_icd"
        /\ UNCHANGED <<exc, raisedBy>>
     \/ /\ \E k \in Raisable : /\ exc' = k
                               /\ raisedBy' = "map_ndc"
        /\ pc' = "map_icd"
        /\ UNCHANGED <<coding, out>>
  /\ UNCHANGED <<installed, task_ds, train_ds, val_ds, test_ds, status, printed>>

\* Step 3a: task_ds = task_ds.stat_code_mapping("NDC", "ATC", level=3)
MapNDC ==
  /\ pc = "map_ndc"
  /\ calls' = Append(calls, "map_ndc")
  /\ \/ /\ coding' = [coding EXCEPT !.drugs = "ATC3"]
        /\ out' = Say("ndc_ok")
        /\ pc' = "map_icd"
        /\ UNCHANGED <<exc, raisedBy>>
     \/ /\ \E k \in Raisable : Raise("map_ndc", k)
        /\ UNCHANGED <<coding, out>>
  /\ UNCHANGED <<installed, task_ds, train_ds, val_ds, test_ds, status, printed>>

\* Step 3b: task_ds = task_ds.stat_code_mapping("ICD9CM", "ICD10CM")
MapICD ==
  /\ pc = "map_icd"
  /\ calls' = Append(calls, "map_icd")
  /\ \/ /\ coding' = [coding EXCEPT !.diagnoses = "ICD10CM"]
        /\ out' = Say("icd_ok")
        /\ pc' = "split"
        /\ UNCHANGED <<exc, raisedBy>>
     \/ /\ \E k \in Raisable : Raise("map_icd", k)
        /\ UNCHANGED <<coding, out>>
  /\ UNCHANGED <<installed, task_ds, train_ds, val_ds, test_ds, status, printed>>

\* Step 4: train_ds, val_ds, test_ds = split_by_patient(task_ds, ratios, seed)
Split ==
  /\ pc = "split"
  /\ calls' = Append(calls, "split")
  /\ \/ /\ \E tr \in SubCollections(task_ds), va \in SubCollections(task_ds),
              te \in SubCollections(task_ds) :
             /\ train_ds' = tr
             /\ val_ds' = va
             /\ test_ds' = te
        /\ out' = Say("split_ok")
        /\ pc' = "report"
        /\ UNCHANGED <<exc, raisedBy>>
     \/ /\ \E k \in Raisable : Raise("split", k)
        /\ UNCHANGED <<train_ds, val_ds, test_ds, out>>
  /\ UNCHANGED <<installed, task_ds, coding, status, printed>>

\* the rest of main(): split percentages, vocabulary lines, final statistics
Report ==
  /\ pc = "report"
  /\ calls' = Append(calls, "report")
  /\ IF Len(task_ds) = 0
     THEN \* len(train_ds)/len(task_ds) divides by zero
          /\ Raise("report", "ZeroDivisionError")
          /\ UNCHANGED <<out, printed>>
     ELSE /\ printed' =
               [labels_shown |-> TRUE,
                total |-> Len(task_ds),
                patients |-> PatientCount(task_ds),
                mortality_count |-> MortalityCount(task_ds),
                mortality_rate |-> Format2f(MortalityCount(task_ds) * 100, Len(Labels(task_ds))),
                survived_count |-> Len(Labels(task_ds)) - MortalityCount(task_ds),
                survived_rate |-> Format2f((Len(Labels(task_ds)) - MortalityCount(task_ds)) * 100,
                                           Len(Labels(task_ds))),
                train |-> Len(train_ds), val |-> Len(val_ds), test |-> Len(test_ds),
                train_pct |-> Format1f(Len(train_ds) * 100, Len(task_ds)),
                val_pct |-> Format1f(Len(val_ds) * 100, Len(task_ds)),
                test_pct |-> Format1f(Len(test_ds) * 100, Len(task_ds)),
                train_patients |-> PatientCount(train_ds),
                val_patients |-> PatientCount(val_ds),
                test_patients |-> PatientCount(test_ds)]
          /\ out' = Say("pipeline_completed")
          /\ pc' = "returned"
          /\ UNCHANGED <<exc, raisedBy>>
  /\ UNCHANGED <<installed, task_ds, coding, train_ds, val_ds, test_ds, status>>

\* main() has returned inside the try: the success banner
Banner ==
  /\ pc = "returned"
  /\ out' = Say("success")
  /\ status' = "exit_ok"
  /\ pc' = "exit"
  /\ UNCHANGED <<installed, task_ds, coding, train_ds, val_ds, test_ds,
                 calls, exc, raisedBy, printed>>

HandleFileNotFound_reraises ==
  /\ pc = "except"
  /\ Classify(exc) = "not_found"
  /\ out' = Say("data_not_found")
  /\ status' = "uncaught"
  /\ pc' = "exit"
  /\ UNCHANGED <<installed, task_ds, coding, train_ds, val_ds, test_ds,
                 calls, exc, raisedBy, printed>>

HandleFileNotFound_thenBanner ==
  /\ pc = "except"
  /\ Classify(exc) = "not_found"
  /\ out' = Append(Say("data_not_found"), <<"success", "">>)
  /\ status' = "exit_ok"
  /\ pc' = "exit"
  /\ UNCHANGED <<installed, task_ds, coding, train_ds, val_ds, test_ds,
                 calls, exc, raisedBy, printed>>

\* except FileNotFoundError as e: print and fall off the end of the script
HandleFileNotFound ==
  /\ pc = "except"
  /\ Classify(exc) = "not_found"
  /\ out' = Say("data_not_found")
  /\ status' = "exit_ok"
  /\ pc' = "exit"
  /\ UNCHANGED <<installed, task_ds, coding, train_ds, val_ds, test_ds,
                 calls, exc, raisedBy, printed>>

\* except ImportError as e: print and fall off the end of the script
HandleImportError ==
  /\ pc = "except"
  /\ Classify(exc) = "import"
  /\ out' = Say("lib_not_installed")
  /\ status' = "exit_ok"
  /\ pc' = "exit"
  /\ UNCHANGED <<installed, task_ds, coding, train_ds, val_ds, test_ds,
                 calls, exc, raisedBy, printed>>

HandleException_swallows ==
  /\ pc = "except"
  /\ Classify(exc) = "other"
  /\ out' = Append(out, <<"unexpected", exc>>)
  /\ status' = "exit_ok"
  /\ pc' = "exit"
  /\ UNCHANGED <<installed, task_ds, coding, train_ds, val_ds, test_ds,
                 calls, exc, raisedBy, printed>>

\* except Exception as e: print type(e).__name__, then raise
HandleException ==
  /\ pc = "except"
  /\ Classify(exc) = "other"
  /\ out' = Append(out, <<"unexpected", exc>>)
  /\ status' = "uncaught"
  /\ pc' = "exit"
  /\ UNCHANGED <<installed, task_ds, coding, train_ds, val_ds, test_ds,
                 calls, exc, raisedBy, printed>>

\* no except clause matches: the exception leaves the try statement
Propagate ==
  /\ pc = "except"
  /\ Classify(exc) = "none"
  /\ status' = "uncaught"
  /\ pc' = "exit"
  /\ UNCHANGED <<installed, task_ds, coding, train_ds, val_ds, test_ds,
                 calls, out, exc, raisedBy, printed>>

Next ==
  \/ Import
  \/ Load
  \/ Label
  \/ MapNDC
  \/ MapICD
  \/ Split
  \/ Report
  \/ Banner
  \/ HandleFileNotFound
  \/ HandleImportError
  \/ HandleException
  \/ Propagate

Spec == Init /\ [][Next]_vars

\* ---- properties ------------------------------------------------------
\* the five external operations, the report step, and the line each prints
\* once it has returned
Order == <<"load", "label", "map_ndc", "map_icd", "split", "report">>
OkTag == <<"step1_ok", "step2_ok", "ndc_ok", "icd_ok", "split_ok", "pipeline_completed">>
PipelineOps == {"load", "label", "map_ndc", "map_icd", "split"}
DiagTags == {"data_not_found", "lib_not_installed", "unexpected"}
DiagnosticPrinted == \E i \in DOMAIN out : out[i][1] \in DiagTags
Ones(ds) == Cardinality({i \in DOMAIN ds : ds[i].label = 1})
Abs(x) == IF x < 0 THEN -x ELSE x

\* C1 (as claimed): when pyhealth is not installed the run ends with the
\* 'Required library not installed' diagnostic printed and no exception
\* leaving the script.
C1_MissingDependencyDiagnosed ==
  (~installed /\ pc = "exit") =>
     (Printed("lib_not_installed") /\ status = "exit_ok")

\* C2: a FileNotFoundError raised by the load step is followed by no other
\* pipeline step, never leaves the script, and the run ends normally with
\* the 'data not found' diagnostic and without the success banner.
C2_NotFoundAtLoad ==
  (raisedBy = "load" /\ IsInstance(exc, "FileNotFoundError")) =>
     /\ calls = <<"load">>
     /\ status # "uncaught"
     /\ pc = "exit" => /\ Printed("data_not_found")
                       /\ status = "exit_ok"
                       /\ ~Printed("success")

C2_Witness ==
  /\ pc = "exit"
  /\ raisedBy = "load"
  /\ exc = "FileNotFoundError"
  /\ Printed("data_not_found")

\* C3 (as claimed): every exception raised by load, label, map or split
\* that is neither a FileNotFoundError nor an ImportError gets the
\* 'Unexpected error' diagnostic naming its type and is then re-raised.
C3_AnyOtherExceptionDiagnosed ==
  (pc = "exit" /\ raisedBy \in PipelineOps
     /\ ~IsInstance(exc, "FileNotFoundError") /\ ~IsInstance(exc, "ImportError")) =>
     /\ out # <<>>
     /\ out[Len(out)] = <<"unexpected", exc>>
     /\ status = "uncaught"

\* C3 (amended): the same for exceptions that derive from Exception; an
\* exception outside that hierarchy (KeyboardInterrupt) leaves the script
\* with no diagnostic at all.  No exception of either sort is swallowed.
C3_OtherExceptionDiagnosed ==
  (pc = "exit" /\ raisedBy \in PipelineOps
     /\ ~IsInstance(exc, "FileNotFoundError") /\ ~IsInstance(exc, "ImportError")) =>
     /\ status = "uncaught"
     /\ IsInstance(exc, "Exception") =>
          /\ out # <<>>
          /\ out[Len(out)] = <<"unexpected", exc>>
     /\ ~IsInstance(exc, "Exception") => ~DiagnosticPrinted

C3_Witness ==
  /\ pc = "exit"
  /\ raisedBy = "split"
  /\ exc = "ValueError"
  /\ status = "uncaught"
  /\ out[Len(out)] = <<"unexpected", "ValueError">>

\* C6 (as claimed): the printed mortality rate is exactly
\* (label-1 samples) / (samples) x 100, the printed mortality count is the
\* number of label-1 samples and the survived count is the rest.
C6_RateExact ==
  Printed("pipeline_completed") =>
     /\ printed.labels_shown
     /\ printed.mortality_rate * Len(task_ds) = Ones(task_ds) * 100 * 100
     /\ printed.mortality_count = Ones(task_ds)
     /\ printed.survived_count = Len(task_ds) - Ones(task_ds)

\* C6 (amended): the printed mortality rate is that quotient rounded to two
\* decimal places (within half a hundredth of it); the two counts are exact.
C6_RateToTwoDecimals ==
  Printed("pipeline_completed") =>
     /\ printed.labels_shown
     /\ 2 * Abs(printed.mortality_rate * Len(task_ds) - Ones(task_ds) * 100 * 100)
          <= Len(task_ds)
     /\ printed.mortality_count = Ones(task_ds)
     /\ printed.survived_count = Len(task_ds) - Ones(task_ds)

C6_Witness ==
  /\ pc = "exit"
  /\ Len(task_ds) = 3
  /\ Ones(task_ds) = 1
  /\ printed.labels_shown
  /\ printed.mortality_rate = 3333

\* C8: the success banner is printed exactly in the runs in which every
\* step of main() returned, and never together with an error diagnostic.
C8_BannerIffCompleted ==
  /\ Printed("success") =>
       /\ \A i \in DOMAIN OkTag : Printed(OkTag[i])
       /\ ~DiagnosticPrinted
       /\ exc = "none"
  /\ pc = "exit" =>
       (Printed("success") <=> \A i \in DOMAIN OkTag : Printed(OkTag[i]))

C8_Witness ==
  /\ pc = "exit"
  /\ Printed("success")
  /\ status = "exit_ok"

\* C9: the steps are invoked in the order load, label, NDC->ATC3 mapping,
\* ICD9CM->ICD10CM mapping, split, report, each at most once, each only
\* after the one before it returned; a step that raises is the last one
\* invoked, and split runs only on a collection that went through both
\* mappings.
C9_FixedOrder ==
  /\ Len(calls) <= Len(Order)
  /\ \A i \in DOMAIN calls : calls[i] = Order[i]
  /\ \A i \in DOMAIN calls : i > 1 => Printed(OkTag[i - 1])
  /\ raisedBy \in Range(Order) => calls[Len(calls)] = raisedBy
  /\ "split" \in Range(calls) =>
       /\ coding = [drugs |-> "ATC3", diagnoses |-> "ICD10CM"]
       /\ Printed("ndc_ok") /\ Printed("icd_ok")

C9_Witness ==
  /\ pc = "exit"
  /\ calls = Order
  /\ Printed("success")

\* C10 (as claimed): with an empty sample collection and three empty
\* partitions the run still reaches the success banner.
C10_EmptyCollectionSucceeds ==
  (pc = "exit" /\ Printed("split_ok") /\ task_ds = <<>>
     /\ train_ds = <<>> /\ val_ds = <<>> /\ test_ds = <<>>) =>
     (Printed("success") /\ status = "exit_ok")

====
